---- MODULE Spec2Model ----
(***************************************************************************)
(* Model of the grade dashboard of src/main.py: the weighted average       *)
(* (calculate_weighted_average), and the evaluation pass that every        *)
(* request to /dashboard runs after its optional edit: per-semester goal   *)
(* classification and the "Semester abgeschlossen" completion flag kept in *)
(* the session.  The goal evaluation of the whole programme (overall      *)
(* target date and grade of the session) is modelled as OverallEval and    *)
(* applied in SpecGoal; Spec has no request update_overall_targets, so     *)
(* the session holds the default overall targets there, whose date parses, *)
(* and the programme evaluation between the goal loop and the completion   *)
(* loop neither raises nor touches a variable of Spec.                     *)
(*                                                                         *)
(* Conventions.                                                            *)
(*  - Python None is the empty tuple <<>>; a present value x is <<x>>.     *)
(*  - Grades are integer-scaled (1..MaxGrade stands for the float scale);  *)
(*    an average is the exact pair <<weighted_sum, total_ects>>, compared  *)
(*    by cross-multiplication, so float rounding is not modelled.          *)
(*  - A target_date string is the record [valid, day]: valid says whether  *)
(*    strptime(.., '%Y-%m-%d') accepts it, day is the day it denotes.      *)
(*  - Time is counted in days; datetime.now() is an input of each request  *)
(*    that never decreases.                                                *)
(*  - The session key semester_<id>_abgeschlossen is a boolean; a missing  *)
(*    key reads as falsy in `not session.get(..)` and is modelled FALSE.   *)
(*  - Requests are made in edit mode with valid indices; a rejected edit   *)
(*    behaves like DashboardGet on the modelled state.                     *)
(***************************************************************************)
EXTENDS Integers, Sequences, FiniteSets, TLC

VARIABLES semesters, abgeschlossen, now,
          average, total_average, ziel_klasse, ziel_nachricht,
          fortschritt_farbe, flashes, raised, notified, condition_seen,
          in_modules, in_new, in_pos, out_avg, out_avg_added, phase,
          goal_in, out_term, out_overall, goal_phase

vars == <<semesters, abgeschlossen, now,
          average, total_average, ziel_klasse, ziel_nachricht,
          fortschritt_farbe, flashes, raised, notified, condition_seen,
          in_modules, in_new, in_pos, out_avg, out_avg_added, phase,
          goal_in, out_term, out_overall, goal_phase>>

dashVars == <<semesters, abgeschlossen, now,
              average, total_average, ziel_klasse, ziel_nachricht,
              fortschritt_farbe, flashes, raised, notified, condition_seen>>

avgVars == <<in_modules, in_new, in_pos, out_avg, out_avg_added, phase>>

goalVars == <<goal_in, out_term, out_overall, goal_phase>>

----------------------------------------------------------------------------
(* Bounds *)

MaxGrade == 2
MaxEcts == 1
MaxModules == 2
MaxDateIdx == 0
MaxTick == 2
MaxLen == 3
MaxWeight == 2

(* Program constants *)

toleranz_tage == 30
semester_tage == 180
(* timedelta(days=3 * 365) *)
studium_tage == 1095

(* The semesters of the user, by id in the order of the query *)
SemIds == {1, 2}
NumSem == Cardinality(SemIds)

None == <<>>
Some(x) == <<x>>

Grades == 1..MaxGrade
OptGrades == {None} \cup {Some(g) : g \in Grades}
EctsValues == 1..MaxEcts

(* Days that target dates denote and instants at which requests arrive:     *)
(* multiples of the tolerance, so that now = date, now = date + tolerance   *)
(* and both sides of each occur.                                            *)
Days == {k * toleranz_tage : k \in 0..MaxDateIdx}
Instants == {k * toleranz_tage : k \in 0..MaxTick}

MalformedDate == [valid |-> FALSE, day |-> 0]
DateStrings == {[valid |-> TRUE, day |-> d] : d \in Days} \cup {MalformedDate}
TargetDates == {None} \cup {Some(d) : d \in DateStrings}

Unset == "unset"

----------------------------------------------------------------------------
(* calculate_weighted_average *)

(* SumUp as it would be with the credit weight left out of the sum *)
RECURSIVE SumUp_unweighted(_, _, _, _)
SumUp_unweighted(modules, i, weighted_sum, total_ects) ==
  IF i > Len(modules) THEN <<weighted_sum, total_ects>>
  ELSE IF modules[i].grade # None
       THEN SumUp_unweighted(modules, i + 1,
                  weighted_sum + modules[i].grade[1],
                  total_ects + modules[i].ects)
       ELSE SumUp_unweighted(modules, i + 1, weighted_sum, total_ects)

(* SumUp as it would be if an ungraded module counted as grade 0 *)
RECURSIVE SumUp_countall(_, _, _, _)
SumUp_countall(modules, i, weighted_sum, total_ects) ==
  IF i > Len(modules) THEN <<weighted_sum, total_ects>>
  ELSE IF modules[i].grade # None
       THEN SumUp_countall(modules, i + 1,
                  weighted_sum + modules[i].grade[1] * modules[i].ects,
                  total_ects + modules[i].ects)
       ELSE SumUp_countall(modules, i + 1, weighted_sum,
                  total_ects + modules[i].ects)

(* The loop of calculate_weighted_average, lines 219-224 *)
RECURSIVE SumUp(_, _, _, _)
SumUp(modules, i, weighted_sum, total_ects) ==
  IF i > Len(modules) THEN <<weighted_sum, total_ects>>
  ELSE IF modules[i].grade # None
       THEN SumUp(modules, i + 1,
                  weighted_sum + modules[i].grade[1] * modules[i].ects,
                  total_ects + modules[i].ects)
       ELSE SumUp(modules, i + 1, weighted_sum, total_ects)

(* calculate_weighted_average without the guard against total_ects = 0 *)
calculate_weighted_average_unguarded(modules) ==
  SumUp(modules, 1, 0, 0)

calculate_weighted_average(modules) ==
  LET acc == SumUp(modules, 1, 0, 0)
  IN IF acc[2] > 0 THEN acc ELSE None

(* average <= target_grade, for a present average <<sum, ects>>, ects > 0 *)
AvgLeq(avg, grade) == avg[1] <= grade * avg[2]

RECURSIVE all_modules(_, _)
all_modules(db, s) ==
  IF s > NumSem THEN <<>> ELSE db[s].modules \o all_modules(db, s + 1)

all_graded(modules) == \A i \in 1..Len(modules) : modules[i].grade # None

(* strptime as it would be if a string that does not match raised an       *)
(* exception that `except ValueError` does not catch                       *)
strptime_uncaught(x) ==
  IF x = None THEN [exc |-> "TypeError", day |-> 0]
  ELSE IF ~x[1].valid THEN [exc |-> "TypeError", day |-> 0]
  ELSE [exc |-> "", day |-> x[1].day]

(* datetime.strptime(x, '%Y-%m-%d'): TypeError for None, ValueError for a  *)
(* string that does not match, the day otherwise.                          *)
strptime(x) ==
  IF x = None THEN [exc |-> "TypeError", day |-> 0]
  ELSE IF ~x[1].valid THEN [exc |-> "ValueError", day |-> 0]
  ELSE [exc |-> "", day |-> x[1].day]

----------------------------------------------------------------------------
(* Goal evaluation of one semester, lines 465-502 *)

farbe_of(klasse) ==
  IF klasse = "ziel-erreicht" THEN "#4CAF50"
  ELSE IF klasse = "ziel-gefaehrdet" THEN "#ff9800"
  ELSE "#f44336"

(* zeit_abgelaufen with >= 100 in place of > 100 *)
zeit_abgelaufen_geq(target_day, t) ==
  LET vergangene_zeit == t - (target_day - semester_tage)
      gesamte_zeit == semester_tage
  IN vergangene_zeit * 100 >= 100 * gesamte_zeit

zeit_abgelaufen(target_day, t) ==
  LET vergangene_zeit == t - (target_day - semester_tage)
      gesamte_zeit == semester_tage
  IN vergangene_zeit * 100 > 100 * gesamte_zeit

GoalEval(sem, avg, t) ==
  IF avg # None
  THEN LET erreicht == AvgLeq(avg, sem.target_grade)
           k0 == IF erreicht THEN "ziel-erreicht" ELSE "ziel-gefaehrdet"
           n0 == IF erreicht THEN <<"guter_weg">> ELSE <<"anstrengen">>
           p == strptime(sem.target_date)
       IN IF p.exc = "TypeError"
          THEN [exc |-> TRUE, klasse |-> k0, nachricht |-> n0, farbe |-> Unset]
          ELSE IF p.exc = "ValueError"
          THEN [exc |-> FALSE, klasse |-> "ziel-verfehlt",
                nachricht |-> Append(n0, "fehler_zeitfortschritt"),
                farbe |-> farbe_of("ziel-verfehlt")]
          ELSE IF zeit_abgelaufen(p.day, t)
          THEN [exc |-> FALSE, klasse |-> "ziel-verfehlt",
                nachricht |-> Append(n0, "zeit_laeuft_ab"),
                farbe |-> farbe_of("ziel-verfehlt")]
          ELSE [exc |-> FALSE, klasse |-> k0, nachricht |-> n0,
                farbe |-> farbe_of(k0)]
  ELSE [exc |-> FALSE, klasse |-> "ziel-gefaehrdet",
        nachricht |-> <<"keine_noten">>,
        farbe |-> farbe_of("ziel-gefaehrdet")]

----------------------------------------------------------------------------
(* Goal evaluation of the whole programme, lines 505-544.  The result      *)
(* holds the values of overall_ziel_klasse, overall_ziel_nachricht,        *)
(* overall_fortschritt_prozent and overall_fortschritt_farbe; when         *)
(* strptime raises TypeError the request ends there (exc), with the        *)
(* values assigned before the try.                                         *)

(* int(num / den) for den > 0: Python's int() drops the fraction, that is  *)
(* it rounds toward zero                                                   *)
int_quot(num, den) ==
  IF num >= 0 THEN num \div den ELSE 0 - ((0 - num) \div den)

studium_abgelaufen(target_day, t) ==
  LET vergangene_zeit == t - (target_day - studium_tage)
      gesamte_zeit == studium_tage
  IN vergangene_zeit * 100 > 100 * gesamte_zeit

(* OverallEval with the percentage rounded down (math.floor) *)
OverallEval_floor(total_avg, overall_target_grade, overall_target_date_str, t) ==
  IF total_avg # None
  THEN LET erreicht == AvgLeq(total_avg, overall_target_grade)
           k0 == IF erreicht THEN "ziel-erreicht" ELSE "ziel-gefaehrdet"
           n0 == IF erreicht THEN <<"guter_weg_gesamt">>
                             ELSE <<"anstrengen_gesamt">>
           pz == IF erreicht THEN 100
                 ELSE IF total_avg[1] > 0
                      THEN (overall_target_grade * total_avg[2] * 100)
                             \div total_avg[1]
                      ELSE 0
           p == strptime(overall_target_date_str)
       IN IF p.exc = "TypeError"
          THEN [exc |-> TRUE, klasse |-> k0, nachricht |-> n0,
                prozent |-> pz, farbe |-> Unset]
          ELSE IF p.exc = "ValueError"
          THEN [exc |-> FALSE, klasse |-> "ziel-verfehlt",
                nachricht |-> Append(n0, "fehler_zeitfortschritt"),
                prozent |-> pz, farbe |-> farbe_of("ziel-verfehlt")]
          ELSE IF studium_abgelaufen(p.day, t)
          THEN [exc |-> FALSE, klasse |-> "ziel-verfehlt",
                nachricht |-> Append(n0, "zeit_studium_laeuft_ab"),
                prozent |-> pz, farbe |-> farbe_of("ziel-verfehlt")]
          ELSE [exc |-> FALSE, klasse |-> k0, nachricht |-> n0,
                prozent |-> pz, farbe |-> farbe_of(k0)]
  ELSE [exc |-> FALSE, klasse |-> "ziel-gefaehrdet",
        nachricht |-> <<"keine_noten_gesamt">>,
        prozent |-> 0, farbe |-> farbe_of("ziel-gefaehrdet")]

(* OverallEval with the time check moved out of the branch that has an    *)
(* average, so that it also runs when there is none                       *)
OverallEval_alwaystime(total_avg, overall_target_grade, overall_target_date_str, t) ==
  LET erreicht == total_avg # None /\ AvgLeq(total_avg, overall_target_grade)
      k0 == IF erreicht THEN "ziel-erreicht" ELSE "ziel-gefaehrdet"
      n0 == IF total_avg = None THEN <<"keine_noten_gesamt">>
            ELSE IF erreicht THEN <<"guter_weg_gesamt">>
            ELSE <<"anstrengen_gesamt">>
      pz == IF total_avg = None THEN 0
            ELSE IF erreicht THEN 100
            ELSE IF total_avg[1] > 0
                 THEN int_quot(overall_target_grade * total_avg[2] * 100,
                               total_avg[1])
                 ELSE 0
      p == strptime(overall_target_date_str)
  IN IF p.exc = "TypeError"
     THEN [exc |-> TRUE, klasse |-> k0, nachricht |-> n0,
           prozent |-> pz, farbe |-> Unset]
     ELSE IF p.exc = "ValueError"
     THEN [exc |-> FALSE, klasse |-> "ziel-verfehlt",
           nachricht |-> Append(n0, "fehler_zeitfortschritt"),
           prozent |-> pz, farbe |-> farbe_of("ziel-verfehlt")]
     ELSE IF studium_abgelaufen(p.day, t)
     THEN [exc |-> FALSE, klasse |-> "ziel-verfehlt",
           nachricht |-> Append(n0, "zeit_studium_laeuft_ab"),
           prozent |-> pz, farbe |-> farbe_of("ziel-verfehlt")]
     ELSE [exc |-> FALSE, klasse |-> k0, nachricht |-> n0,
           prozent |-> pz, farbe |-> farbe_of(k0)]

OverallEval(total_avg, overall_target_grade, overall_target_date_str, t) ==
  IF total_avg # None
  THEN LET erreicht == AvgLeq(total_avg, overall_target_grade)
           k0 == IF erreicht THEN "ziel-erreicht" ELSE "ziel-gefaehrdet"
           n0 == IF erreicht THEN <<"guter_weg_gesamt">>
                             ELSE <<"anstrengen_gesamt">>
           pz == IF erreicht THEN 100
                 ELSE IF total_avg[1] > 0
                      THEN int_quot(overall_target_grade * total_avg[2] * 100,
                                    total_avg[1])
                      ELSE 0
           p == strptime(overall_target_date_str)
       IN IF p.exc = "TypeError"
          THEN [exc |-> TRUE, klasse |-> k0, nachricht |-> n0,
                prozent |-> pz, farbe |-> Unset]
          ELSE IF p.exc = "ValueError"
          THEN [exc |-> FALSE, klasse |-> "ziel-verfehlt",
                nachricht |-> Append(n0, "fehler_zeitfortschritt"),
                prozent |-> pz, farbe |-> farbe_of("ziel-verfehlt")]
          ELSE IF studium_abgelaufen(p.day, t)
          THEN [exc |-> FALSE, klasse |-> "ziel-verfehlt",
                nachricht |-> Append(n0, "zeit_studium_laeuft_ab"),
                prozent |-> pz, farbe |-> farbe_of("ziel-verfehlt")]
          ELSE [exc |-> FALSE, klasse |-> k0, nachricht |-> n0,
                prozent |-> pz, farbe |-> farbe_of(k0)]
  ELSE [exc |-> FALSE, klasse |-> "ziel-gefaehrdet",
        nachricht |-> <<"keine_noten_gesamt">>,
        prozent |-> 0, farbe |-> farbe_of("ziel-gefaehrdet")]

----------------------------------------------------------------------------
(* Completion check of one semester, lines 547-571.  flag is the session   *)
(* value before the check; the result is the value after it and the flash  *)
(* raised for the semester ("" for none).                                  *)

(* frist_abgelaufen with >= in place of > *)
frist_abgelaufen_geq(target_day, t) == t >= target_day + toleranz_tage

frist_abgelaufen(target_day, t) == t > target_day + toleranz_tage

(* CompletionCheck without the test of the stored flag *)
CompletionCheck_noflag(sem, avg, t, flag) ==
  IF avg # None
  THEN LET p == strptime(sem.target_date)
       IN IF p.exc = "TypeError"
          THEN [exc |-> TRUE, flag |-> flag, flash |-> ""]
          ELSE IF p.exc = "ValueError"
          THEN [exc |-> FALSE, flag |-> flag, flash |-> "danger"]
          ELSE IF frist_abgelaufen(p.day, t) \/ all_graded(sem.modules)
          THEN [exc |-> FALSE, flag |-> TRUE, flash |-> "success"]
          ELSE [exc |-> FALSE, flag |-> FALSE, flash |-> ""]
  ELSE [exc |-> FALSE, flag |-> flag, flash |-> ""]

(* CompletionCheck without the guard `semester.average is not None`:      *)
(* a semester without average goes through the date and grade tests too   *)
CompletionCheck_noavgguard(sem, avg, t, flag) ==
  LET p == strptime(sem.target_date)
  IN IF p.exc = "TypeError"
     THEN [exc |-> TRUE, flag |-> flag, flash |-> ""]
     ELSE IF p.exc = "ValueError"
     THEN [exc |-> FALSE, flag |-> flag, flash |-> "danger"]
     ELSE IF frist_abgelaufen(p.day, t)
     THEN IF ~flag THEN [exc |-> FALSE, flag |-> TRUE, flash |-> "success"]
                   ELSE [exc |-> FALSE, flag |-> flag, flash |-> ""]
     ELSE IF all_graded(sem.modules)
     THEN IF ~flag THEN [exc |-> FALSE, flag |-> TRUE, flash |-> "success"]
                   ELSE [exc |-> FALSE, flag |-> flag, flash |-> ""]
     ELSE [exc |-> FALSE, flag |-> FALSE, flash |-> ""]

(* CompletionCheck whose `except ValueError` branch falls into the final   *)
(* else and clears the flag instead of leaving the semester with continue *)
CompletionCheck_skipresets(sem, avg, t, flag) ==
  IF avg # None
  THEN LET p == strptime(sem.target_date)
       IN IF p.exc = "TypeError"
          THEN [exc |-> TRUE, flag |-> flag, flash |-> ""]
          ELSE IF p.exc = "ValueError"
          THEN [exc |-> FALSE, flag |-> FALSE, flash |-> "danger"]
          ELSE IF frist_abgelaufen(p.day, t)
          THEN IF ~flag THEN [exc |-> FALSE, flag |-> TRUE, flash |-> "success"]
                        ELSE [exc |-> FALSE, flag |-> flag, flash |-> ""]
          ELSE IF all_graded(sem.modules)
          THEN IF ~flag THEN [exc |-> FALSE, flag |-> TRUE, flash |-> "success"]
                        ELSE [exc |-> FALSE, flag |-> flag, flash |-> ""]
          ELSE [exc |-> FALSE, flag |-> FALSE, flash |-> ""]
  ELSE [exc |-> FALSE, flag |-> flag, flash |-> ""]

(* CompletionCheck whose deadline branch also asks for all modules to be  *)
(* graded, so a semester past its deadline falls into the clearing else   *)
CompletionCheck_fristneedsgrades(sem, avg, t, flag) ==
  IF avg # None
  THEN LET p == strptime(sem.target_date)
       IN IF p.exc = "TypeError"
          THEN [exc |-> TRUE, flag |-> flag, flash |-> ""]
          ELSE IF p.exc = "ValueError"
          THEN [exc |-> FALSE, flag |-> flag, flash |-> "danger"]
          ELSE IF frist_abgelaufen(p.day, t) /\ all_graded(sem.modules)
          THEN IF ~flag THEN [exc |-> FALSE, flag |-> TRUE, flash |-> "success"]
                        ELSE [exc |-> FALSE, flag |-> flag, flash |-> ""]
          ELSE IF all_graded(sem.modules)
          THEN IF ~flag THEN [exc |-> FALSE, flag |-> TRUE, flash |-> "success"]
                        ELSE [exc |-> FALSE, flag |-> flag, flash |-> ""]
          ELSE [exc |-> FALSE, flag |-> FALSE, flash |-> ""]
  ELSE [exc |-> FALSE, flag |-> flag, flash |-> ""]

CompletionCheck(sem, avg, t, flag) ==
  IF avg # None
  THEN LET p == strptime(sem.target_date)
       IN IF p.exc = "TypeError"
          THEN [exc |-> TRUE, flag |-> flag, flash |-> ""]
          ELSE IF p.exc = "ValueError"
          THEN [exc |-> FALSE, flag |-> flag, flash |-> "danger"]
          ELSE IF frist_abgelaufen(p.day, t)
          THEN IF ~flag THEN [exc |-> FALSE, flag |-> TRUE, flash |-> "success"]
                        ELSE [exc |-> FALSE, flag |-> flag, flash |-> ""]
          ELSE IF all_graded(sem.modules)
          THEN IF ~flag THEN [exc |-> FALSE, flag |-> TRUE, flash |-> "success"]
                        ELSE [exc |-> FALSE, flag |-> flag, flash |-> ""]
          ELSE [exc |-> FALSE, flag |-> FALSE, flash |-> ""]
  ELSE [exc |-> FALSE, flag |-> flag, flash |-> ""]

(* The transition condition as section 4.3 of the specification words it,  *)
(* evaluated only when the average is present: either disjunct suffices,   *)
(* and a target date that does not parse makes the first one false.        *)
DateValid(sem) == sem.target_date # None /\ sem.target_date[1].valid

TransitionCondition(sem, t) ==
  /\ calculate_weighted_average(sem.modules) # None
  /\ \/ DateValid(sem) /\ t > sem.target_date[1].day + toleranz_tage
     \/ all_graded(sem.modules)

----------------------------------------------------------------------------
(* The evaluation pass of dashboard(), lines 456-571, on database db at    *)
(* instant t.  A TypeError of the goal loop leaves the handler at the      *)
(* first semester that raises it: semesters before it are annotated, the   *)
(* raising one keeps what was assigned before strptime, later ones and the *)
(* completion loop are not reached.  (The completion loop parses the same  *)
(* dates under the same guard, so it can only raise where the goal loop    *)
(* already has.)  notified and condition_seen are history variables: a     *)
(* completion flash was ever raised for the semester, the transition       *)
(* condition was ever true in a pass.                                      *)

SetMin(S) == CHOOSE x \in S : \A y \in S : x <= y

TermPass(sem, t, flag) ==
  LET avg == calculate_weighted_average(sem.modules)
  IN [avg |-> avg, goal |-> GoalEval(sem, avg, t),
      comp |-> CompletionCheck(sem, avg, t, flag)]

EvaluationPass(db, t) ==
  \E r \in {[s \in SemIds |-> TermPass(db[s], t, abgeschlossen[s])]} :
  \E raisers \in {{s \in SemIds : r[s].goal.exc \/ r[s].comp.exc}} :
  \E k \in {IF raisers = {} THEN NumSem + 1 ELSE SetMin(raisers)} :
     /\ now' = t
     /\ average' = [s \in SemIds |-> r[s].avg]
     /\ total_average' = calculate_weighted_average(all_modules(db, 1))
     /\ ziel_klasse' = [s \in SemIds |->
                          IF s <= k THEN r[s].goal.klasse ELSE Unset]
     /\ ziel_nachricht' = [s \in SemIds |->
                          IF s <= k THEN r[s].goal.nachricht ELSE <<>>]
     /\ fortschritt_farbe' = [s \in SemIds |->
                          IF s <= k THEN r[s].goal.farbe ELSE Unset]
     /\ raised' = (raisers # {})
     /\ abgeschlossen' = IF raisers # {} THEN abgeschlossen
                         ELSE [s \in SemIds |-> r[s].comp.flag]
     /\ flashes' = [s \in SemIds |->
                      IF raisers # {} THEN "" ELSE r[s].comp.flash]
     /\ notified' = [s \in SemIds |->
                      notified[s] \/ (raisers = {} /\ r[s].comp.flash = "success")]
     /\ condition_seen' = [s \in SemIds |->
                      condition_seen[s] \/ TransitionCondition(db[s], t)]

----------------------------------------------------------------------------
(* Requests *)

CountModules(db) == Len(all_modules(db, 1))

RemoveAt(seq, i) == SubSeq(seq, 1, i - 1) \o SubSeq(seq, i + 1, Len(seq))

(* GET /dashboard, or a POST that changes nothing *)
DashboardGet ==
  \E t \in Instants :
    /\ t >= now
    /\ semesters' = semesters
    /\ EvaluationPass(semesters, t)
    /\ UNCHANGED avgVars
    /\ UNCHANGED goalVars

(* POST add_module, lines 339-354: the new module has no grade *)
AddModule ==
  \E t \in Instants, s \in SemIds, ects \in EctsValues :
    /\ t >= now
    /\ CountModules(semesters) < MaxModules
    /\ \E db \in {[semesters EXCEPT ![s].modules =
                    Append(@, [ects |-> ects, grade |-> None])]} :
          /\ semesters' = db
          /\ EvaluationPass(db, t)
    /\ UNCHANGED avgVars
    /\ UNCHANGED goalVars

(* POST update_module, lines 357-386 *)
UpdateModule ==
  \E t \in Instants, s \in SemIds, ects \in EctsValues, grade \in OptGrades :
    \E i \in 1..Len(semesters[s].modules) :
      /\ t >= now
      /\ \E db \in {[semesters EXCEPT ![s].modules[i] =
                      [ects |-> ects, grade |-> grade]]} :
            /\ semesters' = db
            /\ EvaluationPass(db, t)
      /\ UNCHANGED avgVars
    /\ UNCHANGED goalVars

(* POST remove_module, lines 389-398 *)
RemoveModule ==
  \E t \in Instants, s \in SemIds :
    \E i \in 1..Len(semesters[s].modules) :
      /\ t >= now
      /\ \E db \in {[semesters EXCEPT ![s].modules = RemoveAt(@, i)]} :
            /\ semesters' = db
            /\ EvaluationPass(db, t)
      /\ UNCHANGED avgVars
    /\ UNCHANGED goalVars

(* POST update_semester_targets, lines 432-442: request.form.get gives     *)
(* None for target_date when the field is missing from the form.           *)
UpdateSemesterTargets ==
  \E t \in Instants, s \in SemIds,
     target_date_str \in TargetDates, target_grade \in Grades :
    /\ t >= now
    /\ \E db \in {[semesters EXCEPT ![s].target_date = target_date_str,
                                   ![s].target_grade = target_grade]} :
          /\ semesters' = db
          /\ EvaluationPass(db, t)
    /\ UNCHANGED avgVars
    /\ UNCHANGED goalVars

----------------------------------------------------------------------------
(* The dashboard of a user whose semesters have been created (add_semester,*)
(* lines 323-336, gives a semester a valid target date, a target grade and *)
(* no modules) and not yet displayed: no session flag is set.              *)

InitAvgIdle ==
  /\ in_modules = <<>>
  /\ in_new = [ects |-> 1, grade |-> None]
  /\ in_pos = 0
  /\ out_avg = None
  /\ out_avg_added = None
  /\ phase = "idle"

(* The inputs and results of the goal evaluations taken on their own are   *)
(* not in use                                                              *)
InitGoalIdle ==
  /\ goal_in = [modules |-> <<>>, target_date |-> None,
                target_grade |-> 0, now |-> 0]
  /\ out_term = [exc |-> FALSE, klasse |-> Unset, nachricht |-> <<>>,
                 farbe |-> Unset]
  /\ out_overall = [exc |-> FALSE, klasse |-> Unset, nachricht |-> <<>>,
                    prozent |-> 0, farbe |-> Unset]
  /\ goal_phase = "idle"

InitDash ==
  /\ semesters = [s \in SemIds |->
                    [target_date |-> Some([valid |-> TRUE,
                                           day |-> MaxDateIdx * toleranz_tage]),
                     target_grade |-> MaxGrade,
                     modules |-> <<>>]]
  /\ abgeschlossen = [s \in SemIds |-> FALSE]
  /\ now = 0
  /\ average = [s \in SemIds |-> None]
  /\ total_average = None
  /\ ziel_klasse = [s \in SemIds |-> Unset]
  /\ ziel_nachricht = [s \in SemIds |-> <<>>]
  /\ fortschritt_farbe = [s \in SemIds |-> Unset]
  /\ flashes = [s \in SemIds |-> ""]
  /\ raised = FALSE
  /\ notified = [s \in SemIds |-> FALSE]
  /\ condition_seen = [s \in SemIds |-> FALSE]

Init == InitDash /\ InitAvgIdle /\ InitGoalIdle

Next ==
  \/ DashboardGet
  \/ AddModule
  \/ UpdateModule
  \/ RemoveModule
  \/ UpdateSemesterTargets

Spec == Init /\ [][Next]_vars
----------------------------------------------------------------------------
(* Properties of the evaluation pass (checked under Spec).  Every step of  *)
(* Spec is one request: semesters' is the database the pass reads, now'    *)
(* its instant, abgeschlossen the stored flags before it and abgeschlossen'*)
(* after it, flashes' what it flashed.                                     *)

Malformed(sem) == sem.target_date # None /\ ~sem.target_date[1].valid

(* The goal loop finished with semester s (its colour is assigned last) *)
TermEvaluated(s) == fortschritt_farbe[s] # Unset

(* C1: once the stored flag of a semester is true, no later pass sets it   *)
(* back to false.                                                          *)
C1_FlagTerminal ==
  [][\A s \in SemIds : abgeschlossen[s] => abgeschlossen'[s]]_vars

(* C2: the pass in which the transition condition of a semester is first   *)
(* true, with the stored flag false, flashes the completion once, and a    *)
(* pass during which the flag stays true does not flash it.  (Passes       *)
(* aborted by a TypeError are left out of this statement.)                 *)
C2_OnceOnFirstTrue ==
  [][\A s \in SemIds :
       /\ (/\ ~raised'
           /\ TransitionCondition(semesters'[s], now')
           /\ ~condition_seen[s]
           /\ ~abgeschlossen[s]) => flashes'[s] = "success"
       /\ (abgeschlossen[s] /\ abgeschlossen'[s]) => flashes'[s] # "success"
    ]_vars

(* C2, amended: the same for a semester whose target date parses; a pass   *)
(* aborted by the TypeError of a null target date flashes nothing and      *)
(* leaves the flag as it was.                                              *)
C2_OnceWhenDateParses ==
  [][\A s \in SemIds :
       /\ (/\ TransitionCondition(semesters'[s], now')
           /\ DateValid(semesters'[s])
           /\ ~condition_seen[s]
           /\ ~abgeschlossen[s]) =>
             IF raised'
             THEN flashes'[s] = "" /\ ~abgeschlossen'[s]
             ELSE flashes'[s] = "success" /\ abgeschlossen'[s]
       /\ (abgeschlossen[s] /\ abgeschlossen'[s]) => flashes'[s] # "success"
    ]_vars

C2_Witness ==
  \E s \in SemIds :
    /\ flashes[s] = "success"
    /\ abgeschlossen[s]
    /\ all_graded(semesters[s].modules)
    /\ ~frist_abgelaufen(semesters[s].target_date[1].day, now)

(* C3: a completion is flashed at most once for a semester, over all       *)
(* passes.                                                                 *)
C3_AtMostOnce ==
  [][\A s \in SemIds : notified[s] => flashes'[s] # "success"]_vars

(* C4: in a pass, for a semester with an average and a false stored flag:  *)
(* if now > target_date + 30 days or every module is graded, the pass      *)
(* flashes the completion and the flag is true afterwards; otherwise it    *)
(* flashes no completion.  (Passes aborted by a TypeError are left out.)   *)
C4_EitherDisjunct ==
  [][\A s \in SemIds :
       (~raised' /\ average'[s] # None /\ ~abgeschlossen[s]) =>
         IF TransitionCondition(semesters'[s], now')
         THEN flashes'[s] = "success" /\ abgeschlossen'[s]
         ELSE flashes'[s] # "success"
    ]_vars

(* C4, amended: the same for a semester whose target date parses; a pass   *)
(* aborted by the TypeError of a null target date flashes nothing and      *)
(* leaves the flag false.                                                  *)
C4_EitherDisjunctWhenDateParses ==
  [][\A s \in SemIds :
       (/\ average'[s] # None
        /\ ~abgeschlossen[s]
        /\ DateValid(semesters'[s])) =>
         IF raised'
         THEN flashes'[s] = "" /\ ~abgeschlossen'[s]
         ELSE IF TransitionCondition(semesters'[s], now')
         THEN flashes'[s] = "success" /\ abgeschlossen'[s]
         ELSE flashes'[s] # "success" /\ ~abgeschlossen'[s]
    ]_vars

C4_Witness ==
  \E s \in SemIds :
    /\ flashes[s] = "success"
    /\ abgeschlossen[s]
    /\ ~all_graded(semesters[s].modules)
    /\ frist_abgelaufen(semesters[s].target_date[1].day, now)

(* C5: a semester is classified ziel-erreicht exactly when its average is  *)
(* present, the average is at most the target grade, and now is not after  *)
(* the target date (which therefore parses).                               *)
C5_AchievedIff ==
  \A s \in SemIds :
    TermEvaluated(s) =>
      (ziel_klasse[s] = "ziel-erreicht" <=>
         /\ average[s] # None
         /\ AvgLeq(average[s], semesters[s].target_grade)
         /\ DateValid(semesters[s])
         /\ ~(now > semesters[s].target_date[1].day))

C5_Witness ==
  \E s \in SemIds :
    /\ ziel_klasse[s] = "ziel-erreicht"
    /\ average[s][1] = semesters[s].target_grade * average[s][2]
    /\ now = semesters[s].target_date[1].day
    /\ \E i \in 1..Len(semesters[s].modules) :
         semesters[s].modules[i].grade = None

(* C6: a semester whose target date string does not parse is classified    *)
(* ziel-verfehlt with the date-error suffix, whatever its modules.         *)
(* (Passes aborted by a TypeError are left out.)                           *)
C6_MalformedAlwaysMissed ==
  \A s \in SemIds :
    (Malformed(semesters[s]) /\ ~raised) =>
      /\ ziel_klasse[s] = "ziel-verfehlt"
      /\ ziel_nachricht[s][Len(ziel_nachricht[s])] = "fehler_zeitfortschritt"

(* C6, amended: such a semester is ziel-verfehlt with the date-error       *)
(* suffix when it has an average, and ziel-gefaehrdet with the no-grades   *)
(* message when it has none; the malformed string is never what makes a    *)
(* pass raise (only a null target date of a semester with an average is).  *)
C6_MalformedMissedWhenGraded ==
  /\ \A s \in SemIds :
       (Malformed(semesters[s]) /\ TermEvaluated(s)) =>
         IF average[s] # None
         THEN /\ ziel_klasse[s] = "ziel-verfehlt"
              /\ ziel_nachricht[s][Len(ziel_nachricht[s])]
                   = "fehler_zeitfortschritt"
              /\ fortschritt_farbe[s] = "#f44336"
         ELSE /\ ziel_klasse[s] = "ziel-gefaehrdet"
              /\ ziel_nachricht[s] = <<"keine_noten">>
  /\ \A s \in SemIds :
       (Malformed(semesters[s]) /\ ~TermEvaluated(s)) =>
         \E k \in SemIds : /\ k < s
                           /\ semesters[k].target_date = None
                           /\ average[k] # None

C6_Witness ==
  \E s \in SemIds :
    /\ Malformed(semesters[s])
    /\ average[s] # None
    /\ all_graded(semesters[s].modules)
    /\ ziel_klasse[s] = "ziel-verfehlt"
    /\ ~raised

(* C7: no evaluation pass raises, whatever the semester records are,       *)
(* a null target date included.                                            *)
C7_NeverRaises == ~raised

(* C13: a pass leaves the stored flag of a semester without average as it  *)
(* was, true or false, and flashes no completion for it, also when now is  *)
(* more than 30 days after the target date.                                *)
C13_AbsentAverageUntouched ==
  [][\A s \in SemIds :
       average'[s] = None =>
         /\ abgeschlossen'[s] = abgeschlossen[s]
         /\ flashes'[s] # "success"
    ]_vars

C13_Witness ==
  \E s \in SemIds :
    /\ average[s] = None
    /\ Len(semesters[s].modules) > 0
    /\ abgeschlossen[s]
    /\ DateValid(semesters[s])
    /\ now > semesters[s].target_date[1].day + toleranz_tage
    /\ ~raised

(* C14: in the completion loop a semester with an average and a target    *)
(* date string that does not parse is skipped: its flag stays as stored    *)
(* and no completion is flashed for it, also when all its modules are      *)
(* graded; it gets the date-format flash, and the other semesters of the   *)
(* same pass are still checked (one whose date parses and whose condition  *)
(* is true with flag false is completed and flashed).                      *)
C14_MalformedSkipped ==
  [][\A s \in SemIds :
       (average'[s] # None /\ Malformed(semesters'[s])) =>
         /\ abgeschlossen'[s] = abgeschlossen[s]
         /\ flashes'[s] # "success"
         /\ ~raised' =>
              /\ flashes'[s] = "danger"
              /\ \A o \in SemIds \ {s} :
                    ( /\ DateValid(semesters'[o])
                      /\ TransitionCondition(semesters'[o], now')
                      /\ ~abgeschlossen[o] ) =>
                    (abgeschlossen'[o] /\ flashes'[o] = "success")
    ]_vars

C14_Witness ==
  /\ average[1] # None
  /\ Malformed(semesters[1])
  /\ all_graded(semesters[1].modules)
  /\ flashes[1] = "danger"
  /\ abgeschlossen[1]
  /\ flashes[2] = "success"

(* The flag of semester s is true and now is more than 30 days after its   *)
(* target date, which parses                                               *)
DeadlineCompleted(s) ==
  /\ abgeschlossen[s]
  /\ DateValid(semesters[s])
  /\ now > semesters[s].target_date[1].day + toleranz_tage

(* C15: once a pass has left the flag of a semester true with now more     *)
(* than 30 days after its target date, every later pass that finds the     *)
(* target date unedited leaves the flag true and flashes no completion for *)
(* the semester, whatever was done to its modules and grades.              *)
C15_DeadlineStable ==
  [][\A s \in SemIds :
       ( /\ DeadlineCompleted(s)
         /\ semesters'[s].target_date = semesters[s].target_date ) =>
         /\ DeadlineCompleted(s)'
         /\ flashes'[s] # "success"
    ]_vars

(* a semester completed by its deadline after a grade was cleared, a       *)
(* module without grade was added or its last module was removed           *)
C15_Witness ==
  \E s \in SemIds :
    /\ DeadlineCompleted(s)
    /\ ~all_graded(semesters[s].modules) \/ average[s] = None
    /\ flashes[s] = ""
    /\ ~raised

----------------------------------------------------------------------------
(* calculate_weighted_average as a function of its argument: the module    *)
(* list is drawn from all lists of at most MaxLen modules with credits in  *)
(* 0..MaxWeight (the function does not check them) and optional grades;    *)
(* in_new is an ungraded module, in_pos the place where it is added.       *)

Weights == 0..MaxWeight
AnyModules == [ects : Weights, grade : OptGrades]
ModuleLists == UNION {[1..n -> AnyModules] : n \in 0..MaxLen}

InsertAt(seq, pos, x) ==
  SubSeq(seq, 1, pos) \o <<x>> \o SubSeq(seq, pos + 1, Len(seq))

InitAvg ==
  /\ InitDash
  /\ InitGoalIdle
  /\ in_modules \in ModuleLists
  /\ in_new \in [ects : Weights, grade : {None}]
  /\ in_pos \in 0..Len(in_modules)
  /\ out_avg = None
  /\ out_avg_added = None
  /\ phase = "input"

CalcAverage ==
  /\ phase = "input"
  /\ out_avg' = calculate_weighted_average(in_modules)
  /\ phase' = "computed"
  /\ UNCHANGED <<in_modules, in_new, in_pos, out_avg_added>>
  /\ UNCHANGED dashVars
  /\ UNCHANGED goalVars

CalcAverageAdded ==
  /\ phase = "computed"
  /\ out_avg_added' =
       calculate_weighted_average(InsertAt(in_modules, in_pos, in_new))
  /\ phase' = "added"
  /\ UNCHANGED <<in_modules, in_new, in_pos, out_avg>>
  /\ UNCHANGED dashVars
  /\ UNCHANGED goalVars

NextAvg ==
  \/ CalcAverage
  \/ CalcAverageAdded

SpecAvg == InitAvg /\ [][NextAvg]_vars

----------------------------------------------------------------------------
(* Properties of calculate_weighted_average (checked under SpecAvg) *)

GradedIdx(modules) == {i \in 1..Len(modules) : modules[i].grade # None}

RECURSIVE GradedWeight(_, _)
GradedWeight(modules, S) ==
  IF S = {} THEN 0
  ELSE LET i == CHOOSE j \in S : TRUE
       IN modules[i].ects + GradedWeight(modules, S \ {i})

(* Equality of two optional averages as rationals *)
AvgEq(a, b) ==
  \/ a = None /\ b = None
  \/ a # None /\ b # None /\ a[1] * b[2] = b[1] * a[2]

(* C8: calculate_weighted_average returns None for a list without graded   *)
(* module and for a list whose graded modules weigh zero in total; the     *)
(* divisor of a returned average is never zero; a graded module with       *)
(* credits 0 among positively weighted graded ones does not change the     *)
(* result, which is the average of the list without it.                    *)
C8_AbsentOrDefined ==
  phase # "input" =>
    /\ GradedIdx(in_modules) = {} => out_avg = None
    /\ GradedWeight(in_modules, GradedIdx(in_modules)) = 0 => out_avg = None
    /\ out_avg # None => out_avg[2] # 0
    /\ \A i \in GradedIdx(in_modules) :
         in_modules[i].ects = 0 =>
           AvgEq(out_avg, calculate_weighted_average(RemoveAt(in_modules, i)))

C8_Witness ==
  /\ phase = "computed"
  /\ out_avg # None
  /\ \E i, j \in GradedIdx(in_modules) :
       in_modules[i].ects = 0 /\ in_modules[j].ects > 0

(* C9: with positive credits, a returned average lies between the least    *)
(* and the greatest grade of the graded modules:                           *)
(* min * total_ects <= weighted_sum <= max * total_ects.                   *)
C9_WithinMinMax ==
  (/\ phase # "input"
   /\ \A i \in 1..Len(in_modules) : in_modules[i].ects > 0
   /\ out_avg # None) =>
    /\ \A i \in GradedIdx(in_modules) :
         (\A j \in GradedIdx(in_modules) :
            in_modules[i].grade[1] <= in_modules[j].grade[1])
         => in_modules[i].grade[1] * out_avg[2] <= out_avg[1]
    /\ \A i \in GradedIdx(in_modules) :
         (\A j \in GradedIdx(in_modules) :
            in_modules[j].grade[1] <= in_modules[i].grade[1])
         => out_avg[1] <= in_modules[i].grade[1] * out_avg[2]

C9_Witness ==
  /\ phase = "computed"
  /\ out_avg # None
  /\ \E i, j \in GradedIdx(in_modules) :
       /\ in_modules[i].grade[1] < in_modules[j].grade[1]
       /\ in_modules[i].ects > 0
       /\ in_modules[j].ects > in_modules[i].ects
  /\ \A i \in 1..Len(in_modules) : in_modules[i].ects > 0

(* C10: adding an ungraded module, whatever its credits and wherever it is *)
(* put in the list, leaves the average as it was, absent or not.           *)
C10_UngradedNeutral ==
  phase = "added" => AvgEq(out_avg_added, out_avg)

C10_Witness ==
  /\ phase = "added"
  /\ out_avg # None
  /\ in_new.ects > 0
  /\ in_pos > 0 /\ in_pos < Len(in_modules)

----------------------------------------------------------------------------
(* The two goal evaluations as functions of their arguments: the inputs    *)
(* are drawn from bounded sets, one action applies the evaluation of a     *)
(* semester (GoalEval) and one that of the programme (OverallEval) to      *)
(* them.  The programme consists of the one semester, so its modules are   *)
(* all_modules; target date and target grade are used as the semester's    *)
(* targets by the first action and as the session's overall targets by     *)
(* the second.  float() accepts any number as grade or target grade, so    *)
(* grade 0 and negative target grades are inputs.                          *)

FormGrades == 0..MaxGrade
FormTargetGrades == (0 - MaxGrade)..MaxGrade
GoalModules == [ects : EctsValues, grade : {None} \cup {Some(g) : g \in FormGrades}]
GoalModuleLists == UNION {[1..n -> GoalModules] : n \in 0..MaxModules}

InitGoal ==
  /\ InitDash
  /\ InitAvgIdle
  /\ goal_in \in [modules : GoalModuleLists, target_date : TargetDates,
                   target_grade : FormTargetGrades, now : Instants]
  /\ out_term = [exc |-> FALSE, klasse |-> Unset, nachricht |-> <<>>,
                 farbe |-> Unset]
  /\ out_overall = [exc |-> FALSE, klasse |-> Unset, nachricht |-> <<>>,
                    prozent |-> 0, farbe |-> Unset]
  /\ goal_phase = "input"

EvalTerm ==
  /\ goal_phase = "input"
  /\ out_term' = GoalEval(goal_in,
                          calculate_weighted_average(goal_in.modules),
                          goal_in.now)
  /\ goal_phase' = "term"
  /\ UNCHANGED <<goal_in, out_overall>>
  /\ UNCHANGED dashVars
  /\ UNCHANGED avgVars

EvalOverall ==
  /\ goal_phase = "term"
  /\ out_overall' = OverallEval(calculate_weighted_average(goal_in.modules),
                                goal_in.target_grade, goal_in.target_date,
                                goal_in.now)
  /\ goal_phase' = "overall"
  /\ UNCHANGED <<goal_in, out_term>>
  /\ UNCHANGED dashVars
  /\ UNCHANGED avgVars

NextGoal ==
  \/ EvalTerm
  \/ EvalOverall

SpecGoal == InitGoal /\ [][NextGoal]_vars

(* The average that both evaluations are given *)
GoalAvg == calculate_weighted_average(goal_in.modules)

(* The grade verdict of the programme is not "achieved": there is no       *)
(* average or it is above the target grade                                 *)
GoalNotAchieved == GoalAvg = None \/ ~AvgLeq(GoalAvg, goal_in.target_grade)

(* p is the largest integer not above num / den, for den > 0 *)
IsFloor(p, num, den) == p * den <= num /\ num < (p + 1) * den

(* p is num / den without its fraction, for den > 0 *)
IsTruncation(p, num, den) ==
  IF num >= 0 THEN p * den <= num /\ num < (p + 1) * den
  ELSE (p - 1) * den < num /\ num <= p * den

(* C11 as stated: when the programme goal is not achieved, the percentage  *)
(* is floor(target_grade / average * 100) if the average is positive and 0 *)
(* otherwise, also without average; with a target grade >= 0 and an        *)
(* average above it the percentage is in 0..99.  Stated of the             *)
(* evaluations that end without exception.                                 *)
C11_PercentIsFloor ==
  (goal_phase = "overall" /\ ~out_overall.exc /\ GoalNotAchieved) =>
    /\ IF GoalAvg # None /\ GoalAvg[1] > 0
       THEN IsFloor(out_overall.prozent,
                    goal_in.target_grade * GoalAvg[2] * 100, GoalAvg[1])
       ELSE out_overall.prozent = 0
    /\ (GoalAvg # None /\ goal_in.target_grade >= 0) =>
         out_overall.prozent \in 0..99

(* C11 amended: the percentage is target_grade / average * 100 cut off     *)
(* toward zero, which is the floor for a target grade >= 0 and one above   *)
(* the floor for a negative target grade that does not divide evenly.      *)
C11_PercentIsTruncation ==
  (goal_phase = "overall" /\ GoalNotAchieved) =>
    /\ IF GoalAvg # None /\ GoalAvg[1] > 0
       THEN /\ IsTruncation(out_overall.prozent,
                            goal_in.target_grade * GoalAvg[2] * 100,
                            GoalAvg[1])
            /\ goal_in.target_grade >= 0 =>
                 IsFloor(out_overall.prozent,
                         goal_in.target_grade * GoalAvg[2] * 100, GoalAvg[1])
       ELSE out_overall.prozent = 0
    /\ (GoalAvg # None /\ goal_in.target_grade >= 0) =>
         out_overall.prozent \in 0..99

C11_Witness ==
  /\ goal_phase = "overall"
  /\ GoalAvg # None
  /\ GoalAvg[1] > 0
  /\ goal_in.target_grade < 0
  /\ out_overall.prozent < 0
  /\ ~IsFloor(out_overall.prozent,
              goal_in.target_grade * GoalAvg[2] * 100, GoalAvg[1])

(* The target date of the input parses and now is after it *)
GoalWindowExpired ==
  /\ goal_in.target_date # None
  /\ goal_in.target_date[1].valid
  /\ goal_in.now > goal_in.target_date[1].day

(* C12: an evaluation that yields a classification yields ziel-verfehlt    *)
(* exactly when there is an average and either now is after the target     *)
(* date or the target date string does not parse; without average it       *)
(* yields ziel-gefaehrdet whatever the date, and an average within the     *)
(* target grade yields ziel-verfehlt once the window has expired.  This    *)
(* holds of the semester and of the programme evaluation alike.            *)
C12_MissedIff ==
  /\ (goal_phase \in {"term", "overall"} /\ ~out_term.exc) =>
       /\ out_term.klasse = "ziel-verfehlt" <=>
            (GoalAvg # None /\ (GoalWindowExpired \/ Malformed(goal_in)))
       /\ GoalAvg = None => out_term.klasse = "ziel-gefaehrdet"
       /\ (~GoalNotAchieved /\ GoalWindowExpired) =>
            out_term.klasse = "ziel-verfehlt"
  /\ (goal_phase = "overall" /\ ~out_overall.exc) =>
       /\ out_overall.klasse = "ziel-verfehlt" <=>
            (GoalAvg # None /\ (GoalWindowExpired \/ Malformed(goal_in)))
       /\ GoalAvg = None => out_overall.klasse = "ziel-gefaehrdet"
       /\ (~GoalNotAchieved /\ GoalWindowExpired) =>
            out_overall.klasse = "ziel-verfehlt"

C12_Witness ==
  /\ goal_phase = "overall"
  /\ ~GoalNotAchieved
  /\ GoalWindowExpired
  /\ out_term.klasse = "ziel-verfehlt"
  /\ out_overall.klasse = "ziel-verfehlt"

====
